---- MODULE Spec2Model ----
(***************************************************************************)
(* State-machine model of the Slider component                             *)
(* (src/components/slider/component.jsx): its React state and props, the   *)
(* document-level listeners of a drag, the tooltip timer, and the lodash   *)
(* throttle / debounce wrappers around the key handlers.                   *)
(*                                                                         *)
(* Time is counted in milliseconds.  The action Tick advances the clock by *)
(* TickStep while no throttle or debounce timer is due; an event handler   *)
(* takes no time.  A tooltip timer keeps the delay it was armed with and   *)
(* fires at some later step.                                               *)
(***************************************************************************)
EXTENDS Integers, Sequences, FiniteSets, TLC

\* ------------------------------------------------------------------ bounds
StopCount == 3         \* props.stopCount of the slider under test
RectLeft == 1          \* left edge of the slider's bounding rectangle
RectWidth == 3         \* width of the slider's bounding rectangle
MaxBurst == 3          \* key presses counted in one observed key burst
CalcStops == 12        \* the largest stopCount calculateValue is checked with
CalcWidth == 22        \* the widest rectangle calculateValue is checked with

\* ------------------------------------------------------- program constants
ThrottleWait == 50     \* throttle(..., 50)
DebounceWait == 250    \* debounce(..., 250)
TouchEndDelay == 250   \* handleTogglePopover(false, 250)
KeyInputDelay == 150   \* handleTogglePopover(false, 150)
DisabledKeyDelay == 400 \* handleTogglePopover(false, 400)
DefaultDelay == 0      \* delay = 0

TickStep == ThrottleWait   \* the clock's granularity: the shortest wait

\* Values outside the numbers the program computes with.
Undefined == -200          \* an optional numeric prop that is not set
Null == -100               \* calculateValue's result without a mounted element
NoTimer == -1              \* lodash: timerId === undefined
NoHandle == 0              \* this._timeout === null
NoArgs == "noargs"         \* lodash: lastArgs === undefined

Keys == {"ArrowRight", "ArrowLeft", "Tab", "Enter"}
Buttons == {0, 2}
ClientXs == (RectLeft - 1) .. (RectLeft + RectWidth + 1)
ListenerTypes == {"mousemove", "mouseup", "touchmove", "touchend"}

Min(a, b) == IF a < b THEN a ELSE b
Max(a, b) == IF a > b THEN a ELSE b

\* JavaScript's a > b and a < b on a number and a possibly undefined prop:
\* a comparison with undefined (NaN) is false.
JsGt(a, b) == IF b = Undefined THEN FALSE ELSE a > b
JsLt(a, b) == IF b = Undefined THEN FALSE ELSE a < b

\* ------------------------------------------------- JavaScript numbers
\* The numbers of line 80 are IEEE 754 doubles: 53 significant bits, every
\* operation rounded to the nearest double, ties to the even one.  A double
\* x >= 0 is kept as [m, e], worth (m[1] + m[2] / Limb + m[3] / Limb^2
\* + m[4] / Limb^3 + m[5] / Limb^4) * 2^e: m[2 .. 5] are limbs of LimbBits
\* bits each (52 bits together) and m[1] holds the bits above them.
LimbBits == 13
Limb == 2 ^ LimbBits

DoubleZero == [m |-> <<0, 0, 0, 0, 0>>, e |-> 0]

\* The limbs of m brought back below Limb, the excess carried upwards.
Carry(m) ==
    LET m5 == m[5]
        m4 == m[4] + m5 \div Limb
        m3 == m[3] + m4 \div Limb
        m2 == m[2] + m3 \div Limb
    IN  <<m[1] + m2 \div Limb, m2 % Limb, m3 % Limb, m4 % Limb, m5 % Limb>>

\* One step of the long division by w: the next limb of the quotient and the
\* remainder after it.
DivideStep(r, w) == [q |-> (r * Limb) \div w, r |-> (r * Limb) % w]

\* c / w as a double, for integers 0 <= c <= w, 0 < w < Limb: the first 53
\* bits of the quotient, rounded by what the division leaves.
DoubleDivide(c, w) ==
    IF c = 0 THEN DoubleZero
    ELSE LET s == CHOOSE i \in 0 .. LimbBits - 1 : c * 2 ^ i >= w /\ c * 2 ^ i < 2 * w
             n == c * 2 ^ s
             d1 == DivideStep(n % w, w)
             d2 == DivideStep(d1.r, w)
             d3 == DivideStep(d2.r, w)
             d4 == DivideStep(d3.r, w)
             up == 2 * d4.r > w \/ (2 * d4.r = w /\ d4.q % 2 = 1)
             m == Carry(<<n \div w, d1.q, d2.q, d3.q, d4.q + (IF up THEN 1 ELSE 0)>>)
         IN  IF m[1] = 2
             THEN [m |-> <<1, 0, 0, 0, 0>>, e |-> 1 - s]
             ELSE [m |-> m, e |-> 0 - s]

\* The number of bits p1 >= 1 has above its lowest one.
ExcessBits(p1) == CHOOSE i \in 0 .. LimbBits - 1 : 2 ^ i <= p1 /\ p1 < 2 ^ (i + 1)

\* Round to nearest, ties to even: whether the bits low, the last t bits of
\* the limb p5, round the bits above them up.
RoundsUp(p5, low, t) ==
    \/ 2 * low > 2 ^ t
    \/ t > 0 /\ 2 * low = 2 ^ t /\ (p5 \div 2 ^ t) % 2 = 1

\* The limbs p without their last t bits, rounded by those bits.
CutBits(p, t) ==
    Carry(<<p[1], p[2], p[3], p[4],
            p[5] - (p[5] % 2 ^ t)
                + (IF RoundsUp(p[5], p[5] % 2 ^ t, t) THEN 2 ^ t ELSE 0)>>)

\* The limbs p cut to 53 bits.
CutTo53(p) == CutBits(p, ExcessBits(p[1]))

\* x * k as a double, for a double x >= 0 with 1 <= x.m[1] < 2 or x = 0 and
\* an integer 0 <= k < Limb: the exact product, cut to 53 bits and rounded by
\* the bits cut off.
DoubleTimes(x, k) ==
    IF k = 0 \/ x.m[1] = 0 THEN DoubleZero
    ELSE [m |-> CutTo53(Carry([i \in 1 .. 5 |-> x.m[i] * k])), e |-> x.e]

\* Math.floor in the place of Math.round.
MathFloor(x) == x.m[1] \div 2 ^ (0 - x.e)

\* Math.round(x) of a double x >= 0 with -LimbBits < x.e <= 0: floor(x + 1/2),
\* the integer part plus the bit worth 1/2.
MathRound(x) ==
    LET s == 0 - x.e
    IN  x.m[1] \div 2 ^ s
            + (IF s > 0 THEN (x.m[1] \div 2 ^ (s - 1)) % 2 ELSE x.m[2] \div (Limb \div 2))

\* Math.round((clampedX / width) * (stopCount - 1)) of line 80, tabulated
\* once over the stopCounts, widths and clampedX the model uses:
\* RoundedStop[stopCount][width][clampedX + 1].
RoundedStop ==
    <<>> \o [n \in 1 .. CalcStops |->
        <<>> \o [w \in 1 .. CalcWidth |->
            <<>> \o [c \in 1 .. w + 1 |->
                MathRound(DoubleTimes(DoubleDivide(c - 1, w), n - 1))]]]

VARIABLES
    mounted,     \* the component is mounted (this._slider.current is set)
    props,       \* this.props: disabled, minValue, maxValue, stopCount (props.value
                 \* is read by the constructor and as nextProps.value only)
    rect,        \* this._slider.current.getBoundingClientRect(): left, width
    state,       \* this.state: value, isHovered, isSliding
    timeout,     \* this._timeout and the host timer behind it
    listeners,   \* listener types this instance has registered on document
    throttled,   \* lodash throttle state of handleThrottledKeyDown
    debounced,   \* remaining wait of handleDebouncedKeyInput, or NoTimer
    calls,       \* observer: the onSlide / onStop calls of the last step
    observe,     \* which of the observers below is switched on
    op,          \* observer "op": the handler that ran in the last step
    drag,        \* observer "drag": the drag in progress
    burst,       \* observer "burst": the key burst in progress
    probe        \* observer "calc": the last calculateValue(clientX) evaluated

vars == <<mounted, props, rect, state, timeout, listeners, throttled, debounced,
          calls, observe, op, drag, burst, probe>>

\* ------------------------------------------------------------- observers
\* A call of props.onSlide or props.onStop; prev, kept by the observer
\* "calls", is this.state.value when the handler making the call began.
Call(fn, arg) == [fn |-> fn, arg |-> arg,
                  prev |-> IF observe = "calls" THEN state.value ELSE "-"]

Op(name) == IF observe = "op" THEN name ELSE "-"

NoDrag == [phase |-> "none", kind |-> "none", ref |-> 0, slides |-> 0,
           lastX |-> 0, xUp |-> FALSE, xDown |-> FALSE, ok |-> TRUE]

NoBurst == [phase |-> "none", init |-> 0, presses |-> 0, applied |-> 0,
            oneWindow |-> FALSE, since |-> 0, sinceKey |-> 0, paced |-> TRUE,
            spaced |-> TRUE, replaced |-> FALSE]

NoProbe == [done |-> FALSE, x |-> 0, value |-> 0]

\* The observed drag / burst over a step that does not touch it.
DragKept == IF drag.phase = "active" THEN drag ELSE NoDrag
BurstKept == IF burst.phase = "open" THEN burst ELSE NoBurst

\* ------------------------------------------------------------ value mapper
calculateValue(clientX) ==
    IF ~mounted
    THEN Null
    ELSE LET width == rect.width
             pos == clientX - rect.left
             clampedX == Min(Max(0, pos), width)
             newValue == RoundedStop[props.stopCount][width][clampedX + 1]
         IN  IF JsGt(newValue, props.maxValue) THEN props.maxValue
             ELSE IF JsLt(newValue, props.minValue) THEN props.minValue
             ELSE newValue

\* ----------------------------------------------------------- tooltip timer
\* id: this._timeout, the handle setTimeout returned last, or NoHandle;
\* timers: the host's pending timers armed by this instance, each with its
\* handle, the isOpen its callback will set, and its delay.
NoTimeout == [id |-> NoHandle, timers |-> {}]

\* clearTimeout(id): the host forgets the timer with that handle, if pending.
clearTimeout(timers, id) == {t \in timers : t.handle # id}

\* setTimeout's return value: the smallest handle no pending timer has.
FreshHandle(timers) ==
    CHOOSE h \in 1 .. Cardinality(timers) + 1 :
        /\ \A t \in timers : t.handle # h
        /\ \A g \in 1 .. h - 1 : \E t \in timers : t.handle = g

\* handleTogglePopover without its clearTimeout calls.
handleTogglePopover_NoClear(isOpen, delay) ==
    LET h == FreshHandle(timeout.timers)
    IN  [id |-> h,
         timers |-> timeout.timers \cup
                        {[handle |-> h, isOpen |-> isOpen, delay |-> delay]}]

\* handleTogglePopover(isOpen, delay): the timer this._timeout names, if any,
\* is cleared; a new one is armed and this._timeout names it.
handleTogglePopover(isOpen, delay) ==
    LET kept == IF timeout.id # NoHandle
                THEN clearTimeout(timeout.timers, timeout.id)
                ELSE timeout.timers
        h == FreshHandle(kept)
    IN  [id |-> h,
         timers |-> kept \cup {[handle |-> h, isOpen |-> isOpen, delay |-> delay]}]

\* this.setState(update) of an unmounted component changes nothing.
SetState(update) == IF mounted THEN update ELSE state

\* ------------------------------------------------- lodash throttle/debounce
\* throttle(func, 50) is debounce(func, 50, {leading, trailing, maxWait: 50}).
\* sinceCall / sinceInvoke are now - lastCallTime / now - lastInvokeTime,
\* kept up to ThrottleWait, from which on shouldInvoke no longer tells them
\* apart; an undefined lastCallTime (never called) counts as ThrottleWait.
ThrottleIdle == [timer |-> NoTimer, lastArgs |-> NoArgs,
                 sinceCall |-> ThrottleWait, sinceInvoke |-> ThrottleWait]

shouldInvoke(t) ==
    \/ t.sinceCall >= ThrottleWait
    \/ t.sinceInvoke >= ThrottleWait

remainingWait(t) == Min(ThrottleWait - t.sinceCall, ThrottleWait - t.sinceInvoke)

\* The throttled function called with `key`: the wrapper's next state, and
\* the key func is invoked with now (NoArgs when it is not invoked).
ThrottleCall(t, key) ==
    LET t1 == [t EXCEPT !.lastArgs = key, !.sinceCall = 0]
    IN  IF shouldInvoke(t)
        THEN [next |-> [t1 EXCEPT !.timer = ThrottleWait, !.lastArgs = NoArgs,
                                  !.sinceInvoke = 0],
              invoke |-> key]
        ELSE [next |-> IF t.timer = NoTimer
                       THEN [t1 EXCEPT !.timer = ThrottleWait]
                       ELSE t1,
              invoke |-> NoArgs]

\* A wrapper without the trailing call (throttle(func, wait, {trailing: false})).
ThrottleExpire_NoTrailing(t) ==
    IF shouldInvoke(t)
    THEN [next |-> [t EXCEPT !.timer = NoTimer, !.lastArgs = NoArgs], invoke |-> NoArgs]
    ELSE [next |-> [t EXCEPT !.timer = remainingWait(t)], invoke |-> NoArgs]

\* timerExpired of the throttle wrapper.
ThrottleExpire(t) ==
    IF shouldInvoke(t)
    THEN IF t.lastArgs # NoArgs
         THEN [next |-> [t EXCEPT !.timer = NoTimer, !.lastArgs = NoArgs,
                                  !.sinceInvoke = 0],
               invoke |-> t.lastArgs]
         ELSE [next |-> [t EXCEPT !.timer = NoTimer], invoke |-> NoArgs]
    ELSE [next |-> [t EXCEPT !.timer = remainingWait(t)], invoke |-> NoArgs]

\* --------------------------------------------------------- key handler body
\* The function wrapped by throttle (handleThrottledKeyDown), invoked with
\* the event's key: the state, tooltip timer and debounce timer it leaves,
\* and the calls it makes.  The setState callbacks run once the update is
\* applied; an unmounted component applies no update and runs no callback.
\* The key step without the maxValue / minValue clamps.
KeyValue_NoBounds(key) ==
    IF key \in {"ArrowDown", "ArrowRight"}
    THEN Min(state.value + 1, props.stopCount - 1)
    ELSE Max(state.value - 1, 0)

KeyValue(key) ==
    LET currentValue == state.value
    IN  IF key \in {"ArrowDown", "ArrowRight"}
        THEN LET newValue == currentValue + 1
             IN  IF JsGt(newValue, props.maxValue) THEN props.maxValue
                 ELSE IF newValue > props.stopCount - 1 THEN props.stopCount - 1
                 ELSE newValue
        ELSE LET newValue == currentValue - 1
             IN  IF JsLt(newValue, props.minValue) THEN props.minValue
                 ELSE IF newValue < 0 THEN 0
                 ELSE newValue

ArrowKeys == {"ArrowDown", "ArrowRight", "ArrowUp", "ArrowLeft"}

Unchanged == [state |-> state, timeout |-> timeout, debounced |-> debounced,
              calls |-> <<>>]

\* throttledKeyDown with a debounce timer that a call made while it is
\* pending does not restart.
throttledKeyDown_NoRestart(key) ==
    IF key = NoArgs \/ ~mounted
    THEN Unchanged
    ELSE IF props.disabled
    THEN [Unchanged EXCEPT !.state = [state EXCEPT !.isHovered = TRUE],
                           !.timeout = handleTogglePopover(FALSE, DisabledKeyDelay)]
    ELSE IF key \in ArrowKeys
    THEN [Unchanged EXCEPT !.state = [state EXCEPT !.value = KeyValue(key),
                                                   !.isHovered = TRUE],
                           !.debounced = IF debounced = NoTimer
                                         THEN DebounceWait ELSE debounced,
                           !.calls = <<Call("onSlide", KeyValue(key))>>]
    ELSE Unchanged

throttledKeyDown(key) ==
    IF key = NoArgs \/ ~mounted
    THEN Unchanged
    ELSE IF props.disabled
    THEN [Unchanged EXCEPT !.state = [state EXCEPT !.isHovered = TRUE],
                           !.timeout = handleTogglePopover(FALSE, DisabledKeyDelay)]
    ELSE IF key \in ArrowKeys
    THEN [Unchanged EXCEPT !.state = [state EXCEPT !.value = KeyValue(key),
                                                   !.isHovered = TRUE],
                           !.debounced = DebounceWait,
                           !.calls = <<Call("onSlide", KeyValue(key))>>]
    ELSE Unchanged

\* ------------------------------------------------------------------- Init
\* The configurations a caller passes: stopCount >= 1, minValue and maxValue
\* unset or 0-based indices with minValue <= maxValue < stopCount.
Bounds(n) == {Undefined} \cup (0 .. n - 1)

WellFormed(p) ==
    /\ p.minValue \in Bounds(p.stopCount)
    /\ p.maxValue \in Bounds(p.stopCount)
    /\ (p.minValue # Undefined /\ p.maxValue # Undefined) => p.minValue <= p.maxValue

\* The slider under test has StopCount stops, with no bounds or with both.
Configs ==
    {p \in [disabled : BOOLEAN, stopCount : {StopCount},
            minValue : Bounds(StopCount), maxValue : Bounds(StopCount)] :
        /\ WellFormed(p)
        /\ \/ p.minValue = Undefined /\ p.maxValue = Undefined
           \/ p.minValue = 1 /\ p.maxValue = Max(1, StopCount - 2)}

\* The value prop is any number the caller passes: the stop indices, and one
\* number below and one above them.
ValueProps(p) == (0 - 1) .. p.stopCount

InitWith(o) ==
    /\ mounted = TRUE
    /\ props \in Configs
    /\ rect = [left |-> RectLeft, width |-> RectWidth]
    /\ \E v \in ValueProps(props) :
           state = [value |-> v, isHovered |-> FALSE, isSliding |-> FALSE]
    /\ timeout = NoTimeout
    /\ listeners = {}
    /\ throttled = ThrottleIdle
    /\ debounced = NoTimer
    /\ calls = <<>>
    /\ observe = o
    /\ op = Op("constructor")
    /\ drag = NoDrag
    /\ burst = NoBurst
    /\ probe = NoProbe

Init == InitWith("none")

\* ------------------------------------------------------------- lifecycle
\* componentWillReceiveProps that leaves the value alone during a drag.
componentWillReceiveProps_NotWhileSliding(nextValue, nextDisabled) ==
    /\ mounted
    /\ state' = IF nextValue # state.value /\ ~state.isSliding
                THEN [state EXCEPT !.value = nextValue]
                ELSE state
    /\ props' = [props EXCEPT !.disabled = nextDisabled]
    /\ op' = Op("componentWillReceiveProps")
    /\ calls' = <<>>
    /\ drag' = IF nextValue # state.value \/ nextDisabled THEN NoDrag ELSE DragKept
    /\ burst' = IF nextValue # state.value \/ nextDisabled THEN NoBurst ELSE BurstKept
    /\ UNCHANGED <<observe, probe, mounted, rect, timeout, listeners, throttled, debounced>>

\* componentWillReceiveProps(nextProps): a re-render by the parent, with a
\* value prop and a disabled prop of its choice.
componentWillReceiveProps(nextValue, nextDisabled) ==
    /\ mounted
    /\ state' = IF nextValue # state.value
                THEN [state EXCEPT !.value = nextValue]
                ELSE state
    /\ props' = [props EXCEPT !.disabled = nextDisabled]
    /\ op' = Op("componentWillReceiveProps")
    /\ calls' = <<>>
    /\ drag' = IF nextValue # state.value \/ nextDisabled THEN NoDrag ELSE DragKept
    /\ burst' = IF nextValue # state.value \/ nextDisabled THEN NoBurst ELSE BurstKept
    /\ UNCHANGED <<observe, probe, mounted, rect, timeout, listeners, throttled, debounced>>

\* componentWillUnmount: clears the tooltip timer; React then detaches the
\* element (this._slider.current becomes null).
componentWillUnmount ==
    /\ mounted
    /\ mounted' = FALSE
    /\ timeout' = IF timeout.id # NoHandle
                  THEN [timeout EXCEPT !.timers = clearTimeout(@, timeout.id)]
                  ELSE timeout
    /\ op' = Op("componentWillUnmount")
    /\ calls' = <<>>
    /\ drag' = NoDrag
    /\ burst' = NoBurst
    /\ UNCHANGED <<observe, probe, props, rect, state, listeners, throttled, debounced>>

\* ---------------------------------------------------------- drag observer
\* The drag observer follows one drag from its start event to its end event
\* for as long as nothing but that drag's own events acts on the slider; it
\* picks up drags that begin while no key timer is pending.
\*   slides the number of onSlide calls of the drag, counted up to 2
\*   ref    the argument of the drag's last onSlide call, or the value held
\*          before the drag while slides is 0
\*   lastX  the clientX of the drag's last start or move event
\*   xUp    the clientX values so far are non-decreasing (xDown: non-increasing)
\*   ok     every onSlide argument so far differs from the one before it, is
\*          not below it while xUp holds and not above it while xDown holds
\* A drag begins at clientX x; v is the mapped value and slide tells whether
\* onSlide(v) was called.
StartDrag(kind, x, v, slide) ==
    IF \/ observe # "drag"
       \/ drag.phase = "active"
       \/ throttled.timer # NoTimer
       \/ debounced # NoTimer
    THEN NoDrag
    ELSE [phase |-> "active", kind |-> kind,
          ref |-> IF slide THEN v ELSE state.value,
          slides |-> IF slide THEN 1 ELSE 0,
          lastX |-> x, xUp |-> TRUE, xDown |-> TRUE, ok |-> TRUE]

MoveDrag(kind, x, v, slide) ==
    IF drag.phase = "active" /\ drag.kind = kind /\ mounted /\ ~props.disabled
    THEN LET up == drag.xUp /\ x >= drag.lastX
             down == drag.xDown /\ x <= drag.lastX
             after == slide /\ drag.slides > 0
         IN  [drag EXCEPT !.lastX = IF up \/ down THEN x ELSE 0,
                          !.xUp = up,
                          !.xDown = down,
                          !.ref = IF slide THEN v ELSE @,
                          !.slides = IF slide THEN Min(@ + 1, 2) ELSE @,
                          !.ok = /\ @
                                 /\ (after /\ (up \/ down)) => v # drag.ref
                                 /\ (after /\ up) => v >= drag.ref
                                 /\ (after /\ down) => v <= drag.ref]
    ELSE NoDrag

EndDrag(kind) ==
    IF drag.phase = "active" /\ drag.kind = kind /\ mounted /\ ~props.disabled
    THEN [drag EXCEPT !.phase = "ended"]
    ELSE NoDrag

\* ---------------------------------------------------------- touch handlers
\* The body of handleTouchMove past its disabled guard, for a touch at
\* clientX x: the mapped value, whether onSlide is called with it, and the
\* value and hover flag setState is given.
TouchMoved(x) ==
    LET value == calculateValue(x)
        slide == state.value # value
    IN  [mapped |-> value, slide |-> slide,
         calls |-> IF slide THEN <<Call("onSlide", value)>> ELSE <<>>,
         value |-> IF slide THEN value ELSE state.value,
         isHovered |-> state.isHovered]

handleTouchStart(x) ==
    /\ mounted
    /\ op' = Op("handleTouchStart")
    /\ IF props.disabled
       THEN /\ calls' = <<>>
            /\ drag' = DragKept
            /\ burst' = BurstKept
            /\ UNCHANGED <<state, listeners>>
       ELSE LET m == TouchMoved(x)
            IN  /\ listeners' = listeners \cup {"touchmove", "touchend"}
                /\ calls' = m.calls
                /\ state' = [value |-> m.value, isHovered |-> TRUE,
                             isSliding |-> TRUE]
                /\ drag' = StartDrag("touch", x, m.mapped, m.slide)
                /\ burst' = NoBurst
    /\ UNCHANGED <<observe, probe, mounted, props, rect, timeout, throttled, debounced>>

handleTouchMove(x) ==
    /\ "touchmove" \in listeners
    /\ op' = Op("handleTouchMove")
    /\ IF props.disabled
       THEN /\ calls' = <<>>
            /\ drag' = DragKept
            /\ burst' = BurstKept
            /\ UNCHANGED state
       ELSE LET m == TouchMoved(x)
            IN  /\ calls' = m.calls
                /\ state' = SetState([state EXCEPT !.value = m.value])
                /\ drag' = MoveDrag("touch", x, m.mapped, m.slide)
                /\ burst' = NoBurst
    /\ UNCHANGED <<observe, probe, mounted, props, rect, timeout, listeners, throttled, debounced>>

handleTouchEnd ==
    /\ "touchend" \in listeners
    /\ op' = Op("handleTouchEnd")
    /\ IF props.disabled
       THEN /\ calls' = <<>>
            /\ drag' = DragKept
            /\ burst' = BurstKept
            /\ UNCHANGED <<state, listeners, timeout>>
       ELSE /\ listeners' = listeners \ {"touchmove", "touchend"}
            /\ calls' = <<Call("onStop", state.value)>>
            /\ state' = SetState([state EXCEPT !.isSliding = FALSE])
            /\ timeout' = handleTogglePopover(FALSE, TouchEndDelay)
            /\ drag' = EndDrag("touch")
            /\ burst' = NoBurst
    /\ UNCHANGED <<observe, probe, mounted, props, rect, throttled, debounced>>

\* ---------------------------------------------------------- mouse handlers
\* MouseMoved with the setState of the new value left out.
MouseMoved_NoCommit(x) ==
    LET value == calculateValue(x)
        slide == state.value # value
    IN  [mapped |-> value, slide |-> slide,
         calls |-> IF slide THEN <<Call("onSlide", value)>> ELSE <<>>,
         value |-> state.value,
         isHovered |-> slide \/ state.isHovered]

\* MouseMoved with the this.state.value !== value test left out.
MouseMoved_NoTest(x) ==
    LET value == calculateValue(x)
    IN  [mapped |-> value, slide |-> TRUE,
         calls |-> <<Call("onSlide", value)>>,
         value |-> value,
         isHovered |-> TRUE]

\* The body of handleMouseMove past its disabled guard.
MouseMoved(x) ==
    LET value == calculateValue(x)
        slide == state.value # value
    IN  [mapped |-> value, slide |-> slide,
         calls |-> IF slide THEN <<Call("onSlide", value)>> ELSE <<>>,
         value |-> IF slide THEN value ELSE state.value,
         isHovered |-> slide \/ state.isHovered]

\* handleMouseDown without the this.state.isSliding test of its guard.
handleMouseDown_NoSlidingGuard(button, x) ==
    /\ mounted
    /\ UNCHANGED <<observe, probe, mounted, props, rect, timeout, throttled, debounced>>
    /\ op' = Op("handleMouseDown")
    /\ IF props.disabled \/ button # 0
       THEN /\ UNCHANGED <<state, listeners>>
            /\ calls' = <<>>
            /\ drag' = DragKept
            /\ burst' = BurstKept
       ELSE LET m == MouseMoved(x)
            IN  /\ listeners' = listeners \cup {"mousemove", "mouseup"}
                /\ calls' = m.calls
                /\ state' = [value |-> m.value, isHovered |-> TRUE,
                             isSliding |-> TRUE]
                /\ drag' = StartDrag("mouse", x, m.mapped, m.slide)
                /\ burst' = NoBurst

handleMouseDown(button, x) ==
    /\ mounted
    /\ UNCHANGED <<observe, probe, mounted, props, rect, timeout, throttled, debounced>>
    /\ op' = Op("handleMouseDown")
    /\ IF props.disabled \/ button # 0 \/ state.isSliding
       THEN /\ UNCHANGED <<state, listeners>>
            /\ calls' = <<>>
            /\ drag' = DragKept
            /\ burst' = BurstKept
       ELSE LET m == MouseMoved(x)
            IN  /\ listeners' = listeners \cup {"mousemove", "mouseup"}
                /\ calls' = m.calls
                /\ state' = [value |-> m.value, isHovered |-> TRUE,
                             isSliding |-> TRUE]
                /\ drag' = StartDrag("mouse", x, m.mapped, m.slide)
                /\ burst' = NoBurst

handleMouseMove(x) ==
    /\ "mousemove" \in listeners
    /\ op' = Op("handleMouseMove")
    /\ IF props.disabled
       THEN /\ calls' = <<>>
            /\ drag' = DragKept
            /\ burst' = BurstKept
            /\ UNCHANGED state
       ELSE LET m == MouseMoved(x)
            IN  /\ calls' = m.calls
                /\ state' = SetState([state EXCEPT !.value = m.value,
                                                   !.isHovered = m.isHovered])
                /\ drag' = MoveDrag("mouse", x, m.mapped, m.slide)
                /\ burst' = NoBurst
    /\ UNCHANGED <<observe, probe, mounted, props, rect, timeout, listeners, throttled, debounced>>

handleMouseUp ==
    /\ "mouseup" \in listeners
    /\ op' = Op("handleMouseUp")
    /\ IF props.disabled
       THEN /\ calls' = <<>>
            /\ drag' = DragKept
            /\ burst' = BurstKept
            /\ UNCHANGED <<state, listeners, timeout>>
       ELSE /\ listeners' = listeners \ {"mousemove", "mouseup"}
            /\ calls' = <<Call("onStop", state.value)>>
            /\ state' = SetState([state EXCEPT !.isSliding = FALSE])
            /\ timeout' = handleTogglePopover(FALSE, DefaultDelay)
            /\ drag' = EndDrag("mouse")
            /\ burst' = NoBurst
    /\ UNCHANGED <<observe, probe, mounted, props, rect, throttled, debounced>>

\* ------------------------------------------------------------ key handlers
IncKeys == {"ArrowRight", "ArrowDown"}

\* The observed burst over a key-down of `key`, given the throttle wrapper's
\* answer r: a burst opens with an incrementing key applied at once on an
\* idle slider and goes on with incrementing keys only.
\*   since    the time passed since the burst's last applied key was applied
\*   sinceKey the time passed since that key's event arrived (up to ThrottleWait)
\*   paced    every key was applied ThrottleWait or more after the one before
\*            was applied
\*   spaced   every key was applied ThrottleWait or more after the event of
\*            the one before arrived
\*   replaced a tooltip timer was pending when the burst's debounce timer
\*            fired and armed its own
\* A key that arrived `age` ago is applied, or none is (invoke = NoArgs).
BurstApplied(b, invoke, age) ==
    IF invoke # NoArgs
    THEN [b EXCEPT !.applied = @ + 1,
                   !.since = 0,
                   !.sinceKey = age,
                   !.paced = @ /\ b.since >= ThrottleWait,
                   !.spaced = @ /\ b.sinceKey >= ThrottleWait]
    ELSE b

KeyBurst(key, r) ==
    IF key \notin IncKeys \/ props.disabled
    THEN NoBurst
    ELSE IF burst.phase = "open"
    THEN IF burst.presses >= MaxBurst
         THEN NoBurst
         ELSE [BurstApplied(burst, r.invoke, 0) EXCEPT
                            !.presses = @ + 1,
                            !.oneWindow = /\ @
                                          /\ r.invoke = NoArgs
                                          /\ throttled.timer # NoTimer
                                          /\ burst.applied = 1]
    ELSE IF /\ observe = "burst"
            /\ r.invoke # NoArgs
            /\ throttled.timer = NoTimer
            /\ debounced = NoTimer
            /\ ~state.isSliding
    THEN [phase |-> "open", init |-> state.value, presses |-> 1, applied |-> 1,
          oneWindow |-> TRUE, since |-> 0, sinceKey |-> 0, paced |-> TRUE,
          spaced |-> TRUE, replaced |-> FALSE]
    ELSE NoBurst

handleKeyDown(key) ==
    /\ mounted
    /\ op' = Op("handleKeyDown")
    /\ IF key \in {"Tab", "Escape"}
       THEN /\ calls' = <<>>
            /\ drag' = DragKept
            /\ burst' = BurstKept
            /\ UNCHANGED <<state, timeout, throttled, debounced>>
       ELSE LET r == ThrottleCall(throttled, key)
                e == throttledKeyDown(r.invoke)
            IN  /\ throttled' = r.next
                /\ state' = e.state
                /\ timeout' = e.timeout
                /\ debounced' = e.debounced
                /\ calls' = e.calls
                /\ drag' = IF e.calls # <<>> \/ e.state # state
                           THEN NoDrag ELSE DragKept
                /\ burst' = KeyBurst(key, r)
    /\ UNCHANGED <<observe, probe, mounted, props, rect, listeners>>

\* The throttle wrapper's timer fires (trailing edge).
handleThrottledKeyDown ==
    /\ throttled.timer = 0
    /\ op' = Op("handleThrottledKeyDown")
    /\ LET r == ThrottleExpire(throttled)
           e == throttledKeyDown(r.invoke)
       IN  /\ throttled' = r.next
           /\ state' = e.state
           /\ timeout' = e.timeout
           /\ debounced' = e.debounced
           /\ calls' = e.calls
           /\ drag' = IF e.calls # <<>> \/ e.state # state
                      THEN NoDrag ELSE DragKept
           /\ burst' = IF burst.phase = "open"
                       THEN BurstApplied(burst, r.invoke, throttled.sinceCall)
                       ELSE NoBurst
    /\ UNCHANGED <<observe, probe, mounted, props, rect, listeners>>

\* The debounce wrapper's timer fires: DebounceWait after the last call.
handleDebouncedKeyInput ==
    /\ debounced = 0
    /\ op' = Op("handleDebouncedKeyInput")
    /\ debounced' = NoTimer
    /\ timeout' = handleTogglePopover(FALSE, KeyInputDelay)
    /\ calls' = <<Call("onStop", state.value)>>
    /\ drag' = NoDrag
    /\ burst' = IF burst.phase = "open"
                THEN [burst EXCEPT !.phase = "done",
                                   !.replaced = timeout.timers # {}]
                ELSE NoBurst
    /\ UNCHANGED <<observe, probe, mounted, props, rect, state, listeners, throttled>>

\* ------------------------------------------------------------------ hover
handleMouseEnter ==
    /\ mounted
    /\ op' = Op("handleMouseEnter")
    /\ timeout' = handleTogglePopover(TRUE, DefaultDelay)
    /\ calls' = <<>>
    /\ drag' = DragKept
    /\ burst' = BurstKept
    /\ UNCHANGED <<observe, probe, mounted, props, rect, state, listeners, throttled, debounced>>

handleMouseLeave ==
    /\ mounted
    /\ op' = Op("handleMouseLeave")
    /\ timeout' = handleTogglePopover(FALSE, DefaultDelay)
    /\ calls' = <<>>
    /\ drag' = DragKept
    /\ burst' = BurstKept
    /\ UNCHANGED <<observe, probe, mounted, props, rect, state, listeners, throttled, debounced>>

\* The callback armed by handleTogglePopover runs.
TimeoutFired ==
    /\ \E t \in timeout.timers :
           /\ state' = SetState([state EXCEPT !.isHovered = t.isOpen])
           /\ timeout' = [id |-> NoHandle, timers |-> timeout.timers \ {t}]
    /\ op' = Op("timeout")
    /\ calls' = <<>>
    /\ drag' = DragKept
    /\ burst' = BurstKept
    /\ UNCHANGED <<observe, probe, mounted, props, rect, listeners, throttled, debounced>>

\* ------------------------------------------------------------------- time
\* TickStep passes; a due timer runs before any time passes.
Age(a) == Min(a + TickStep, ThrottleWait)

Tick ==
    /\ throttled.timer # 0
    /\ debounced # 0
    /\ throttled' = [throttled EXCEPT
                        !.timer = IF @ = NoTimer THEN @ ELSE @ - TickStep,
                        !.sinceCall = Age(@),
                        !.sinceInvoke = Age(@)]
    /\ debounced' = IF debounced = NoTimer THEN debounced ELSE debounced - TickStep
    /\ op' = Op("tick")
    /\ calls' = <<>>
    /\ drag' = DragKept
    /\ burst' = IF burst.phase = "open"
                THEN [burst EXCEPT !.since = Min(@ + TickStep, DebounceWait + TickStep),
                                   !.sinceKey = Age(@)]
                ELSE NoBurst
    /\ UNCHANGED <<observe, probe, mounted, props, rect, state, listeners, timeout>>

\* ------------------------------------------------------------------- Next
Next ==
    \/ \E v \in ValueProps(props), d \in BOOLEAN : componentWillReceiveProps(v, d)
    \/ componentWillUnmount
    \/ \E x \in ClientXs : handleTouchStart(x)
    \/ \E x \in ClientXs : handleTouchMove(x)
    \/ handleTouchEnd
    \/ \E b \in Buttons, x \in ClientXs : handleMouseDown(b, x)
    \/ \E x \in ClientXs : handleMouseMove(x)
    \/ handleMouseUp
    \/ \E k \in Keys : handleKeyDown(k)
    \/ handleThrottledKeyDown
    \/ handleDebouncedKeyInput
    \/ handleMouseEnter
    \/ handleMouseLeave
    \/ TimeoutFired
    \/ Tick

Spec == Init /\ [][Next]_vars

\* ------------------------------------------------------ the value mapper
\* calculateValue alone, over every well-formed configuration of up to
\* CalcStops stops, rectangles of width 1 .. CalcWidth, and every clientX
\* from left of the rectangle to right of it.
CalcConfigs ==
    {p \in [disabled : {FALSE}, stopCount : 1 .. CalcStops,
            minValue : Bounds(CalcStops), maxValue : Bounds(CalcStops)] :
        WellFormed(p)}

CalcRects == [left : 0 .. RectLeft, width : 1 .. CalcWidth]

CalcXs == (0 - 1) .. (RectLeft + CalcWidth + 1)

InitCalc ==
    /\ mounted = TRUE
    /\ props \in CalcConfigs
    /\ rect \in CalcRects
    /\ state = [value |-> 0, isHovered |-> FALSE, isSliding |-> FALSE]
    /\ timeout = NoTimeout
    /\ listeners = {}
    /\ throttled = ThrottleIdle
    /\ debounced = NoTimer
    /\ calls = <<>>
    /\ observe = "calc"
    /\ op = Op("constructor")
    /\ drag = NoDrag
    /\ burst = NoBurst
    /\ probe = NoProbe

Calculate(clientX) ==
    /\ ~probe.done
    /\ probe' = [done |-> TRUE, x |-> clientX, value |-> calculateValue(clientX)]
    /\ UNCHANGED <<mounted, props, rect, state, timeout, listeners, throttled,
                   debounced, calls, observe, op, drag, burst>>

NextCalc == \E x \in CalcXs : Calculate(x)

SpecCalc == InitCalc /\ [][NextCalc]_vars

\* The same program with the drag observer, or the burst observer, on.
SpecDrag == InitWith("drag") /\ [][Next]_vars
SpecBurst == InitWith("burst") /\ [][Next]_vars
SpecCalls == InitWith("calls") /\ [][Next]_vars

\* ------------------------------------------------------------- properties
OnStops == {i \in 1 .. Len(calls) : calls[i].fn = "onStop"}
OnSlides == {i \in 1 .. Len(calls) : calls[i].fn = "onSlide"}

\* The upper bound of the value: maxValue if set, else stopCount - 1.
UpperBound == IF props.maxValue # Undefined THEN props.maxValue
              ELSE props.stopCount - 1

\* C1 (checked under SpecDrag): a drag on an enabled slider, made of its
\* start, move and end events, gets no onStop call before its end event, and
\* its end event makes exactly one onStop call, whose argument is the argument
\* of the drag's last onSlide call, or the value held before the drag when the
\* drag made no onSlide call.
C1_OneStopPerDrag ==
    /\ drag.phase = "active" => OnStops = {}
    /\ drag.phase = "ended" =>
           /\ Len(calls) = 1
           /\ calls[1].fn = "onStop"
           /\ calls[1].arg = drag.ref

\* A drag that made two or more onSlide calls has ended.
C1_Witness ==
    /\ drag.phase = "ended"
    /\ drag.slides = 2
    /\ calls # <<>>
    /\ calls[1].arg = drag.ref

\* C2 (checked under SpecCalls): onSlide is never called with the value the
\* slider held when the event arrived.
C2_OnSlideOnlyOnChange ==
    observe = "calls" => \A i \in OnSlides : calls[i].arg # calls[i].prev

\* C3: state.value is within [0, stopCount - 1], and within
\* [minValue, maxValue] where those are set.
C3_ValueInRange ==
    /\ state.value \in 0 .. props.stopCount - 1
    /\ props.minValue # Undefined => state.value >= props.minValue
    /\ props.maxValue # Undefined => state.value <= props.maxValue

\* C4 (checked under SpecCalc): for a mounted slider with a rectangle of
\* positive width and a well-formed configuration, calculateValue(clientX) is
\* a stop index within [minValue, maxValue] where those are set, and it is
\* round(clamp(clientX - left, 0, width) / width * (stopCount - 1)) clamped to
\* those bounds: the quotient, the product and the rounding are those of
\* JavaScript's numbers, and the rounded product is a stop nearest to the
\* exact clampedX * (stopCount - 1) / width, at most 1/2 away from it.
C4_Clamped(raw) ==
    LET lo == IF props.minValue # Undefined THEN props.minValue ELSE 0
        hi == UpperBound
    IN  IF raw < lo THEN lo ELSE IF raw > hi THEN hi ELSE raw

C4_ClampedX(clientX) ==
    LET pos == clientX - rect.left
    IN  IF pos < 0 THEN 0 ELSE IF pos > rect.width THEN rect.width ELSE pos

C4_Expected(clientX) ==
    C4_Clamped(MathRound(DoubleTimes(DoubleDivide(C4_ClampedX(clientX), rect.width),
                                     props.stopCount - 1)))

C4_Nearest(clientX) ==
    LET exact2 == 2 * C4_ClampedX(clientX) * (props.stopCount - 1)
    IN  {C4_Clamped(k) : k \in {j \in 0 .. props.stopCount - 1 :
                                    /\ 2 * j * rect.width - rect.width <= exact2
                                    /\ exact2 <= 2 * j * rect.width + rect.width}}

C4_CalculateValue ==
    probe.done =>
        /\ probe.value \in 0 .. props.stopCount - 1
        /\ props.minValue # Undefined => probe.value >= props.minValue
        /\ props.maxValue # Undefined => probe.value <= props.maxValue
        /\ probe.value = C4_Expected(probe.x)
        /\ probe.value \in C4_Nearest(probe.x)

\* A probe whose exact product lies halfway between two stops and whose
\* rounded product is the lower of the two.
C4_Witness ==
    /\ probe.done
    /\ props.minValue = Undefined /\ props.maxValue = Undefined
    /\ 2 * C4_ClampedX(probe.x) * (props.stopCount - 1)
           = (2 * probe.value + 1) * rect.width

\* C5: while disabled is true, a pointer, touch or key event, or a timer such
\* an event armed (the throttle timer, the debounce timer of the key input,
\* the tooltip timer), makes no onSlide or onStop call, leaves state.value
\* alone and arms no debounce timer.
DisabledStep ==
    \/ \E x \in ClientXs : handleTouchStart(x)
    \/ \E x \in ClientXs : handleTouchMove(x)
    \/ handleTouchEnd
    \/ \E b \in Buttons, x \in ClientXs : handleMouseDown(b, x)
    \/ \E x \in ClientXs : handleMouseMove(x)
    \/ handleMouseUp
    \/ \E k \in Keys : handleKeyDown(k)
    \/ handleThrottledKeyDown
    \/ handleDebouncedKeyInput
    \/ TimeoutFired

C5_DisabledIsInert ==
    [][(props.disabled /\ DisabledStep) =>
           /\ calls' = <<>>
           /\ state'.value = state.value
           /\ debounced' \in {debounced, NoTimer}]_vars

\* C6 as stated (checked under SpecBurst): of two or more ArrowRight presses
\* arriving within one throttle window only the first is applied, so that the
\* burst ends at min(initial + 1, upper bound) with one onStop call.
C6_OnlyFirstApplied ==
    (burst.phase = "done" /\ burst.oneWindow /\ burst.presses >= 2) =>
        /\ state.value = Min(burst.init + 1, UpperBound)
        /\ Len(calls) = 1
        /\ calls[1].fn = "onStop"

\* C6 as the code has it: the first press is applied at once and the last of
\* the others when the window closes, the presses between them are dropped;
\* the burst ends at min(initial + 2, upper bound), no onStop call is made
\* before the debounce timer fires, and that makes exactly one.
C6_FirstAndLastApplied ==
    /\ (burst.phase = "open" /\ burst.oneWindow) => OnStops = {}
    /\ (burst.phase = "done" /\ burst.oneWindow /\ burst.presses >= 2) =>
           /\ burst.applied = 2
           /\ state.value = Min(burst.init + 2, UpperBound)
           /\ Len(calls) = 1
           /\ calls[1].fn = "onStop"
           /\ calls[1].arg = state.value

\* Three presses in one window moved the value up by two.
C6_Witness ==
    /\ burst.phase = "done"
    /\ burst.oneWindow
    /\ burst.presses = 3
    /\ state.value = burst.init + 2
    /\ calls # <<>>

\* C7 (checked under SpecBurst): a burst of ArrowRight presses of which k are
\* applied, each before the debounce of the one before expires, ends at
\* min(initial + k, upper bound); no onStop call is made during the burst and
\* exactly one, with the final value, when its debounce timer fires.
C7_BurstEndsClamped ==
    /\ burst.phase = "open" => OnStops = {}
    /\ burst.phase = "done" =>
           /\ state.value = Min(burst.init + burst.applied, UpperBound)
           /\ Len(calls) = 1
           /\ calls[1].fn = "onStop"
           /\ calls[1].arg = state.value

\* Three applied presses from inside the bounds end clamped at maxValue.
C7_Witness ==
    /\ burst.phase = "done"
    /\ burst.applied = 3
    /\ burst.presses = 3
    /\ props.maxValue # Undefined
    /\ burst.init >= props.minValue
    /\ burst.init + 3 > props.maxValue
    /\ state.value = props.maxValue
    /\ calls # <<>>

\* C8: once the component is unmounted, no timer left pending makes an
\* onSlide or onStop call (with no document listener registered, a timer is
\* the only source of a call).
C8_NoTimerCallAfterUnmount ==
    (~mounted /\ listeners = {}) => calls = <<>>

\* C9: after componentWillUnmount no document listener of the instance is
\* registered.
C9_NoListenerAfterUnmount ==
    ~mounted => listeners = {}

\* C10 (checked under SpecDrag): in a drag whose clientX values are
\* non-decreasing (non-increasing) the onSlide arguments are non-decreasing
\* (non-increasing), and no two consecutive ones are equal.
C10_MonotoneSlides ==
    drag.phase # "none" => drag.ok

\* A drag moving right has made two onSlide calls.
C10_Witness ==
    /\ drag.phase = "active"
    /\ drag.xUp
    /\ ~drag.xDown
    /\ drag.slides = 2
    /\ OnSlides # {}

\* C11: a props update (componentWillReceiveProps) with value prop v leaves
\* state.value = v, changes the state if and only if v differs from the
\* state.value it finds, makes no onSlide or onStop call and leaves isHovered
\* and isSliding as they were.  (The constructor's state.value is the value
\* prop: InitWith.)
C11_PropsUpdate ==
    [][\A v \in ValueProps(props), d \in BOOLEAN :
          componentWillReceiveProps(v, d) =>
              /\ state'.value = v
              /\ (state' # state) <=> (v # state.value)
              /\ state'.isHovered = state.isHovered
              /\ state'.isSliding = state.isSliding
              /\ calls' = <<>>]_vars

\* In the middle of a drag (which began enabled and put the value within the
\* bounds) a props update has disabled the slider and set a value below
\* minValue.
C11_Witness ==
    /\ mounted
    /\ props.disabled
    /\ state.isSliding
    /\ state.isHovered
    /\ props.minValue # Undefined
    /\ state.value < props.minValue
    /\ calls = <<>>

MouseListeners == {"mousemove", "mouseup"}
TouchListeners == {"touchmove", "touchend"}

\* C12: at most one drag is in progress: the listeners of a mouse drag and
\* those of a touch drag are never registered together, and while the
\* listeners of a drag are registered on a mounted slider isSliding is true
\* (no end event of a second drag has cleared it).
C12_OneDragAtATime ==
    /\ ~(MouseListeners \subseteq listeners /\ TouchListeners \subseteq listeners)
    /\ (mounted /\ listeners # {}) => state.isSliding

\* C13: an end event delivered to a mounted, enabled slider unregisters the
\* move and end listeners of its kind, calls onStop once with the current
\* value, clears isSliding and arms a tooltip close (delay 250 for touch-end,
\* 0 for mouse-up); and in every state with isSliding false no listener is
\* registered.
EndEventEffect(kind, delay) ==
    /\ listeners' \cap kind = {}
    /\ calls' = <<Call("onStop", state.value)>>
    /\ ~state'.isSliding
    /\ timeout'.id # NoHandle
    /\ \E t \in timeout'.timers :
           t.handle = timeout'.id /\ ~t.isOpen /\ t.delay = delay

C13_EndEventCleansUp ==
    /\ [][(mounted /\ ~props.disabled /\ handleMouseUp) =>
              EndEventEffect(MouseListeners, DefaultDelay)]_vars
    /\ [][(mounted /\ ~props.disabled /\ handleTouchEnd) =>
              EndEventEffect(TouchListeners, TouchEndDelay)]_vars
    /\ [](~state.isSliding => listeners = {})

\* C14: isSliding implies isHovered.
C14_SlidingImpliesHovered ==
    state.isSliding => state.isHovered

\* C16: a move event handled while calculateValue has no element to measure
\* (its result is null) calls no onSlide and leaves state.value alone: no
\* onSlide call has a null argument and state.value is never null.
C16_NullMapperIgnored ==
    /\ \A i \in OnSlides : calls[i].arg # Null
    /\ state.value # Null

\* C17: on a mounted, enabled slider holding value v, a key the throttle
\* wrapper applies (at once, or at its trailing edge) leaves v' with
\* v <= v' <= min(maxValue, stopCount - 1) and v' <= v + 1 for ArrowDown /
\* ArrowRight, and max(minValue, 0) <= v' <= v and v' >= v - 1 for ArrowUp /
\* ArrowLeft; any other key, applied or not, leaves the value alone and makes
\* no onSlide or onStop call.
KeyApplied(k) ==
    \/ handleKeyDown(k) /\ k \notin {"Tab", "Escape"}
                        /\ ThrottleCall(throttled, k).invoke = k
    \/ handleThrottledKeyDown /\ ThrottleExpire(throttled).invoke = k

LowerBound == IF props.minValue # Undefined THEN Max(props.minValue, 0) ELSE 0

C17_ArrowKeyStep ==
    [][\A k \in Keys :
          /\ (mounted /\ ~props.disabled /\ KeyApplied(k) /\ k \in IncKeys) =>
                 /\ state.value <= state'.value
                 /\ state'.value <= Min(UpperBound, props.stopCount - 1)
                 /\ state'.value <= state.value + 1
          /\ (mounted /\ ~props.disabled /\ KeyApplied(k) /\ k \in ArrowKeys \ IncKeys) =>
                 /\ LowerBound <= state'.value
                 /\ state'.value <= state.value
                 /\ state'.value >= state.value - 1
          /\ (mounted /\ ~props.disabled /\ k \notin ArrowKeys
                 /\ (handleKeyDown(k) \/ KeyApplied(k))) =>
                 /\ state'.value = state.value
                 /\ calls' = <<>>]_vars

\* C19: a mouse-down with a button other than 0, or one arriving while
\* isSliding is true, registers no listener, leaves value, isHovered and
\* isSliding alone, arms no timer (tooltip, throttle or debounce) and makes
\* no onSlide or onStop call: a step that changes any of these, or makes a
\* call, is not such a mouse-down.
C19_IgnoredMouseDown ==
    [][\/ /\ UNCHANGED <<state, listeners, timeout, throttled, debounced>>
          /\ calls' = <<>>
       \/ \A b \in Buttons :
              (b # 0 \/ state.isSliding) =>
                  \A x \in ClientXs : ~handleMouseDown(b, x)]_vars

\* C15 (checked under SpecBurst): at most one tooltip timer is pending, and
\* it is the one this._timeout names (the one armed last); on a mounted
\* slider a this._timeout that is set names a pending timer; the timer that
\* fires leaves none pending and this._timeout null, and isHovered at the
\* isOpen of the last handleTogglePopover call.
C15_OneTimerPending ==
    /\ [](/\ Cardinality(timeout.timers) <= 1
          /\ \A t \in timeout.timers : t.handle = timeout.id
          /\ (mounted /\ timeout.id # NoHandle) =>
                 \E t \in timeout.timers : t.handle = timeout.id)
    /\ [][TimeoutFired =>
              /\ timeout' = NoTimeout
              /\ mounted => \E t \in timeout.timers :
                                /\ t.handle = timeout.id
                                /\ state'.isHovered = t.isOpen]_vars

\* The debounce timer of a key burst has fired while a tooltip timer was
\* pending: the only timer pending now is the close it armed.
C15_Witness ==
    /\ burst.phase = "done"
    /\ burst.replaced
    /\ timeout.id # NoHandle
    /\ timeout.timers = {[handle |-> timeout.id, isOpen |-> FALSE,
                          delay |-> KeyInputDelay]}

\* What the debounce timer does when it fires on a burst.
BurstStopped ==
    /\ Len(calls) = 1
    /\ calls[1].fn = "onStop"
    /\ \E t \in timeout.timers :
           t.handle = timeout.id /\ ~t.isOpen /\ t.delay = KeyInputDelay

\* C18 as stated (checked under SpecBurst): the onStop call of a key burst,
\* and the arming of the tooltip close, come 150 ms after the burst's last
\* applied key, and two applied keys are 50 ms or more apart.
C18_StopAfter150 ==
    /\ burst.phase # "none" => burst.paced
    /\ burst.phase = "done" => (burst.since = KeyInputDelay /\ BurstStopped)

\* C18 as the code has it: the onStop call and the arming of the tooltip
\* close come 250 ms (the debounce wait) after the burst's last applied key;
\* 150 ms is the delay of the tooltip close armed then.  A key is applied
\* 50 ms or more after the event of the key applied before it arrived (a key
\* applied when a throttle window closes can be followed at once by the key
\* that opens the next window).
C18_StopAfterDebounce ==
    /\ burst.phase # "none" => burst.spaced
    /\ burst.phase = "open" => burst.since < DebounceWait \/ debounced = 0
    /\ burst.phase = "done" => (burst.since = DebounceWait /\ BurstStopped)

\* A burst of three presses, of which two or more were applied, has ended.
C18_Witness ==
    /\ burst.phase = "done"
    /\ burst.presses = 3
    /\ burst.applied >= 2
    /\ burst.since = DebounceWait
    /\ Len(calls) = 1
    /\ ~burst.oneWindow

\* The state an ignored mouse-down leaves is the state it found, with no
\* call: a touch drag in progress on an enabled slider, a tooltip timer and
\* the debounce timer pending, no mouse listener registered.
C19_Witness ==
    /\ mounted
    /\ ~props.disabled
    /\ state.isSliding
    /\ TouchListeners \subseteq listeners
    /\ listeners \cap MouseListeners = {}
    /\ timeout.timers # {}
    /\ debounced # NoTimer
    /\ calls = <<>>

====
